---- MODULE Spec2Model ----
(***************************************************************************)
(* Model of chatbot.py: a Telegram bot with a per-chat authorization gate, *)
(* two canned menu buttons, a Google Sheets fetch and a Gemini answer.     *)
(*                                                                         *)
(* A Python str is a sequence of one-character strings.  A character that  *)
(* is not ASCII is written by its code point: "U+1F4C5" is the calendar    *)
(* emoji, "U+1F5D1" the wastebasket, "U+00EA"/"U+00CA" are e/E with        *)
(* circumflex, "U+00F3"/"U+00D3" o/O with acute, "U+20AC" the euro sign    *)
(* and "U+00A3" the pound sign.  A fixed message of the program is one     *)
(* piece (one string) of the text it is part of.                           *)
(***************************************************************************)
EXTENDS Integers, Sequences, FiniteSets, TLC

VARIABLES
    USER_STATE,      \* chatbot.py:43, chat_id -> "authorized"
    environ,         \* os.environ["GOOGLE_TOKEN_JSON"], chatbot.py:73
    last,            \* the update handled last and the external calls it made
    restarted,       \* the chats whose latest update was /start
    GOOGLE_TOKEN_JSON, \* chatbot.py:25, read once from the environment
    response,        \* the argument of sanitize_response
    clean_response   \* the results of applying sanitize_response in turn

vars == <<USER_STATE, environ, last, restarted, GOOGLE_TOKEN_JSON, response, clean_response>>

(***************************** bounds **************************************)
NumChats == 2
MaxLen == 3
MaxRespLen == 2
MaxHistory == 2

Chats == 1..NumChats

RECURSIVE BoundedSeq(_, _)
BoundedSeq(S, n) ==
    IF n = 0 THEN {<<>>}
    ELSE LET shorter == BoundedSeq(S, n - 1)
         IN  shorter \cup {Append(s, c) : s \in {t \in shorter : Len(t) = n - 1}, c \in S}

(***************************** str methods *********************************)
UpperCase == <<"A", "B", "C", "D", "E", "F", "G", "H", "I", "J", "K", "L", "M",
               "N", "O", "P", "Q", "R", "S", "T", "U", "V", "W", "X", "Y", "Z",
               "U+00CA", "U+00D3">>
LowerCase == <<"a", "b", "c", "d", "e", "f", "g", "h", "i", "j", "k", "l", "m",
               "n", "o", "p", "q", "r", "s", "t", "u", "v", "w", "x", "y", "z",
               "U+00EA", "U+00F3">>
Digits == {"0", "1", "2", "3", "4", "5", "6", "7", "8", "9"}
Whitespace == {" ", "\n", "\t"}

lower_char(c) ==
    IF \E i \in 1..Len(UpperCase) : UpperCase[i] = c
    THEN LowerCase[CHOOSE i \in 1..Len(UpperCase) : UpperCase[i] = c]
    ELSE c

LowerOmitted(s) == s

\* str.lower()
lower(s) == [i \in 1..Len(s) |-> lower_char(s[i])]

RECURSIVE lstrip(_)
lstrip(s) == IF s # <<>> /\ Head(s) \in Whitespace THEN lstrip(Tail(s)) ELSE s

RECURSIVE rstrip(_)
rstrip(s) ==
    IF s # <<>> /\ s[Len(s)] \in Whitespace THEN rstrip(SubSeq(s, 1, Len(s) - 1)) ELSE s

\* str.strip()
strip(s) == rstrip(lstrip(s))

(***************************** sanitize_response ***************************)
\* \w of a str pattern: letters, digits and the underscore
IsWordChar(c) ==
    \/ \E i \in 1..Len(UpperCase) : c = UpperCase[i] \/ c = LowerCase[i]
    \/ c \in Digits
    \/ c = "_"

\* the characters the class [^\w\s,.!?%€$£-] does not match
Kept(c) ==
    \/ IsWordChar(c)
    \/ c \in Whitespace
    \/ c \in {",", ".", "!", "?", "%", "U+20AC", "$", "U+00A3", "-"}

\* re.sub(r"\*", "", response)
RemoveStars(r) == SelectSeq(r, LAMBDA c : c # "*")

\* re.sub(r"[^\w\s,.!?%€$£-]", "", response)
RemoveOthers(r) == SelectSeq(r, Kept)

SanitizeStripFirst(r) == RemoveOthers(RemoveStars(strip(r)))

SanitizeStarsOnly(r) == strip(RemoveStars(r))

sanitize_response(r) == strip(RemoveOthers(RemoveStars(r)))

SanAlphabet == {"a", "_", " ", "\n", "*", "#", ","}

(***************************** fixed texts *********************************)
AUTHORIZED_USERS ==
    { <<"r", "a", "p", "h", "a", "e", "l">>,
      <<"m", "a", "r", "i", "a", "n", "a">>,
      <<"n", "i", "l", "z", "a">>,
      <<"m", "a", "t", "h", "e", "u", "s">> }

\* the two button captions of MENU_KEYBOARD, as the buttons send them
BUTTON_VIGENCIA ==
    <<"U+1F4C5", " ", "V", "i", "g", "U+00EA", "n", "c", "i", "a", " ", "d", "o", " ",
      "c", "o", "n", "t", "r", "a", "t", "o", " ", "7", "1">>
BUTTON_LIMPAR ==
    <<"U+1F5D1", " ", "L", "i", "m", "p", "a", "r", " ",
      "h", "i", "s", "t", "U+00F3", "r", "i", "c", "o">>

\* the literals handle_message compares user_text with
TEXT_VIGENCIA ==
    <<"U+1F4C5", " ", "v", "i", "g", "U+00EA", "n", "c", "i", "a", " ", "d", "o", " ",
      "c", "o", "n", "t", "r", "a", "t", "o", " ", "7", "1">>
TEXT_LIMPAR ==
    <<"U+1F5D1", " ", "l", "i", "m", "p", "a", "r", " ",
      "h", "i", "s", "t", "U+00F3", "r", "i", "c", "o">>

MSG_GREETING == "[U+2705] Acesso autorizado! Como posso te ajudar?"
MSG_REJECTED == "[U+274C] Usuario nao autorizado. Voce nao pode interagir com o bot."
MSG_VIGENCIA == "[U+1F4CC] O contrato 71 tem vigencia ate 29/04/2025."
MSG_SHEET_ERROR == "[U+26A0] Erro ao acessar a planilha: "
MSG_NO_DATA == "Nenhum dado encontrado."
MSG_CLEARING == "[U+1F5D1] Limpando historico de conversa..."
MSG_CLEARED == "[U+2705] Historico limpo com sucesso!"
MSG_CLEAR_ERROR == "[U+26A0] Erro ao limpar historico: "
MSG_WELCOME == "[U+1F44B] Ola! Sou um bot que analisa dados dos contratos. Antes de continuar, por favor, me diga seu nome:"
PROMPT_HEAD == "Voce e um assistente especializado em analise de dados de planilhas. Aqui estao os dados da planilha em formato JSON:"
PROMPT_ASK == "Responda a seguinte pergunta do usuario com base nesses dados:"

\* one external call: the method, the text it carries, the keyboard, the message id
Call(op, text, markup, arg) == [op |-> op, text |-> text, markup |-> markup, arg |-> arg]
reply_text(text, markup) == Call("reply_text", text, markup, 0)
send_message(text, markup) == Call("send_message", text, markup, 0)
delete_message(id) == Call("delete_message", <<>>, "none", id)
Api(op) == Call(op, <<>>, "none", 0)

(***************************** get_google_sheets_data **********************)
\* what the Google client libraries do during one call: the state of the
\* stored credentials, the renewal (refresh or interactive flow), build and
\* the read request
SheetsWorlds ==
    [creds : {"valid", "refreshable", "stale", "load_error"},
     auth : {"ok", "error"},
     build : {"ok", "HttpError", "OtherError"},
     execute : {"values", "empty", "HttpError", "OtherError"}]

\* result.get("values", []) of a sheet that has rows
SHEET_VALUES == <<<<"contrato", "vigencia">>, <<"71", "29/04/2025">>>>
\* str(err) of an HttpError
HTTP_ERROR == "<HttpError 403 The caller does not have permission>"

Raised(calls, saved) ==
    [kind |-> "raise", type |-> "exception", str |-> "", rows |-> <<>>,
     calls |-> calls, saved |-> saved]
ReturnedStr(s, calls, saved) ==
    [kind |-> "return", type |-> "str", str |-> s, rows |-> <<>>,
     calls |-> calls, saved |-> saved]
ReturnedRows(rows, calls, saved) ==
    [kind |-> "return", type |-> "list", str |-> "", rows |-> rows,
     calls |-> calls, saved |-> saved]

get_google_sheets_data(tok, e) ==
    LET creds == IF tok = "set" THEN e.creds ELSE "none"
        load  == IF tok = "set" THEN <<Api("Credentials.from_authorized_user_info")>>
                 ELSE <<>>
        renew == IF creds = "valid" THEN <<>>
                 ELSE IF creds = "refreshable" THEN <<Api("creds.refresh")>>
                 ELSE <<Api("flow.run_local_server")>>
        saved == creds # "valid"
        built == load \o renew \o <<Api("build")>>
        read  == built \o <<Api("values.get.execute")>>
    IN  IF creds = "load_error" THEN Raised(load, FALSE)
        ELSE IF creds # "valid" /\ e.auth = "error" THEN Raised(load \o renew, FALSE)
        ELSE IF e.build = "HttpError" THEN ReturnedStr(HTTP_ERROR, built, saved)
        ELSE IF e.build = "OtherError" THEN Raised(built, saved)
        ELSE IF e.execute = "HttpError" THEN ReturnedStr(HTTP_ERROR, read, saved)
        ELSE IF e.execute = "OtherError" THEN Raised(read, saved)
        ELSE IF e.execute = "empty" THEN ReturnedStr(MSG_NO_DATA, read, saved)
        ELSE ReturnedRows(SHEET_VALUES, read, saved)

(***************************** generate_gemini_response ********************)
AIAlphabet == {"a", " ", "*"}
AIResponses == BoundedSeq(AIAlphabet, MaxRespLen)

\* json.dumps(data, indent=2), one piece for each bracket and each cell
RECURSIVE json_row(_)
json_row(row) == IF row = <<>> THEN <<>> ELSE <<Head(row)>> \o json_row(Tail(row))
RECURSIVE json_rows(_)
json_rows(rows) ==
    IF rows = <<>> THEN <<>>
    ELSE <<"[">> \o json_row(Head(rows)) \o <<"]">> \o json_rows(Tail(rows))
json_dumps(rows) == <<"[">> \o json_rows(rows) \o <<"]">>

Prompt(json_data, user_text) ==
    <<PROMPT_HEAD>> \o json_data \o <<PROMPT_ASK>> \o user_text

\* the outcomes of one call: the service fails, or answers some text
generate_gemini_response(prompt) ==
    {[kind |-> "raise", text |-> <<>>, calls |-> <<Call("generate_content", prompt, "none", 0)>>]}
    \cup {[kind |-> "return", text |-> strip(t),
           calls |-> <<Call("generate_content", prompt, "none", 0)>>] : t \in AIResponses}

(***************************** clear_chat_history **************************)
\* what the Bot API does during one call: the messages the history holds and
\* the call that fails (0: none, 1: the first send_message, 2: get_chat_history,
\* 2 + k: the k-th delete_message, h + 3: the closing send_message), and
\* whether the send_message of the except clause fails too
ClearWorlds ==
    {[h |-> h, fail |-> f, report |-> r] :
        h \in 0..MaxHistory, f \in 0..(MaxHistory + 3), r \in {"ok", "error"}}

RECURSIVE Deletes(_, _)
Deletes(from, to) ==
    IF from > to THEN <<>> ELSE <<delete_message(from)>> \o Deletes(from + 1, to)

clear_chat_history(w) ==
    LET first   == <<send_message(<<MSG_CLEARING>>, "none")>>
        listing == first \o <<Api("get_chat_history")>>
        closing == <<send_message(<<MSG_CLEARED>>, "MENU_KEYBOARD")>>
        report  == <<send_message(<<MSG_CLEAR_ERROR, "str(e)">>, "none")>>
        tried   == IF w.fail = 1 THEN first
                   ELSE IF w.fail = 2 THEN listing
                   ELSE IF w.fail \in 3..(w.h + 2) THEN listing \o Deletes(1, w.fail - 2)
                   ELSE listing \o Deletes(1, w.h) \o closing
        failed  == w.fail \in 1..(w.h + 3)
    IN  IF ~failed THEN [calls |-> tried, raised |-> FALSE]
        ELSE [calls |-> tried \o report, raised |-> w.report = "error"]

(***************************** handle_message ******************************)
\* what handle_message holds in data: nothing before line 115, then what
\* get_google_sheets_data returned or that it raised
Unfetched == [kind |-> "none", type |-> "none", str |-> ""]
Fetched(data) == [kind |-> data.kind, type |-> data.type, str |-> data.str]

Outcome(us, calls, raised, saved, data) ==
    [state |-> us, calls |-> calls, raised |-> raised, saved |-> saved, data |-> data]

\* USER_STATE[chat_id] = "authorized"
Authorize(us, c) ==
    [x \in DOMAIN us \cup {c} |-> IF x = c THEN "authorized" ELSE us[x]]

AnswerAfterNotice(us, user_text, data) ==
    {IF g.kind = "raise"
     THEN Outcome(us, data.calls \o <<reply_text(<<"...">>, "none")>> \o g.calls,
                  TRUE, data.saved, Fetched(data))
     ELSE Outcome(us, data.calls \o <<reply_text(<<"...">>, "none")>> \o g.calls
                      \o <<reply_text(sanitize_response(g.text), "none")>>,
                  FALSE, data.saved, Fetched(data))
     : g \in generate_gemini_response(Prompt(json_dumps(data.rows), user_text))}

\* lines 121-135
Answer(us, user_text, data) ==
    {IF g.kind = "raise"
     THEN Outcome(us, data.calls \o g.calls, TRUE, data.saved, Fetched(data))
     ELSE Outcome(us, data.calls \o g.calls
                      \o <<reply_text(sanitize_response(g.text), "none")>>,
                  FALSE, data.saved, Fetched(data))
     : g \in generate_gemini_response(Prompt(json_dumps(data.rows), user_text))}

QueryWithoutTypeCheck(us, user_text, data) ==
    IF data.kind = "raise"
    THEN {Outcome(us, data.calls, TRUE, data.saved, Fetched(data))}
    ELSE Answer(us, user_text, data)

\* lines 115-135
Query(us, user_text, data) ==
    IF data.kind = "raise"
    THEN {Outcome(us, data.calls, TRUE, data.saved, Fetched(data))}
    ELSE IF data.type = "str"
    THEN {Outcome(us, data.calls \o <<reply_text(<<MSG_SHEET_ERROR, data.str>>, "none")>>,
                  FALSE, data.saved, Fetched(data))}
    ELSE Answer(us, user_text, data)

GateRecordsFirst(us, c, user_text) ==
    IF user_text \in AUTHORIZED_USERS
    THEN {Outcome(Authorize(us, c), <<reply_text(<<MSG_GREETING>>, "MENU_KEYBOARD")>>,
                  FALSE, FALSE, Unfetched)}
    ELSE {Outcome(Authorize(us, c), <<reply_text(<<MSG_REJECTED>>, "none")>>,
                  FALSE, FALSE, Unfetched)}

GateWithoutReturn(us, c, user_text) ==
    IF user_text \in AUTHORIZED_USERS
    THEN {Outcome(o.state, <<reply_text(<<MSG_GREETING>>, "MENU_KEYBOARD")>> \o o.calls,
                  o.raised, o.saved, o.data)
          : o \in UNION {Query(Authorize(us, c), user_text, get_google_sheets_data("set", e))
                         : e \in SheetsWorlds}}
    ELSE {Outcome(us, <<reply_text(<<MSG_REJECTED>>, "none")>>, FALSE, FALSE, Unfetched)}

\* lines 97-103
Gate(us, c, user_text) ==
    IF user_text \in AUTHORIZED_USERS
    THEN {Outcome(Authorize(us, c), <<reply_text(<<MSG_GREETING>>, "MENU_KEYBOARD")>>,
                  FALSE, FALSE, Unfetched)}
    ELSE {Outcome(us, <<reply_text(<<MSG_REJECTED>>, "none")>>, FALSE, FALSE, Unfetched)}

\* the outcomes of handling one text message of chat c
handle_message(us, tok, c, text) ==
    LET user_text == lower(strip(text))
    IN  IF c \notin DOMAIN us THEN Gate(us, c, user_text)
        ELSE IF user_text = TEXT_VIGENCIA
        THEN {Outcome(us, <<reply_text(<<MSG_VIGENCIA>>, "none")>>, FALSE, FALSE, Unfetched)}
        ELSE IF user_text = TEXT_LIMPAR
        THEN {Outcome(us, clear_chat_history(w).calls, clear_chat_history(w).raised,
                      FALSE, Unfetched)
              : w \in ClearWorlds}
        ELSE UNION {Query(us, user_text, get_google_sheets_data(tok, e)) : e \in SheetsWorlds}

(***************************** start ***************************************)
PopNothing(us, c) == us

PopEveryChat(us, c) == <<>>

\* USER_STATE.pop(chat_id, None)
Pop(us, c) == [x \in DOMAIN us \ {c} |-> us[x]]

\* lines 150-159
start(us, c) ==
    Outcome(Pop(us, c), <<reply_text(<<MSG_WELCOME>>, "none")>>, FALSE, FALSE, Unfetched)

(***************************** the updates *********************************)
\* the text messages the chats send
Texts ==
    { <<"r", "a", "p", "h", "a", "e", "l">>,
      <<"M", "a", "r", "i", "a", "n", "a">>,
      <<"N", "I", "L", "Z", "A">>,
      <<" ", "m", "a", "t", "h", "e", "u", "s", "\n">>,
      <<"b", "o", "b">>,
      <<"r", "a", " ", "p", "h", "a", "e", "l">>,
      BUTTON_VIGENCIA,
      <<"U+1F4C5", " ", "V", "I", "G", "U+00CA", "N", "C", "I", "A", " ", "D", "O", " ",
        "C", "O", "N", "T", "R", "A", "T", "O", " ", "7", "1">>,
      BUTTON_LIMPAR }

NoUpdate ==
    [handler |-> "none", chat |-> 0, text |-> <<>>, authorized |-> FALSE,
     calls |-> <<>>, raised |-> FALSE, data |-> Unfetched]

Handled(handler, c, text, o) ==
    /\ USER_STATE' = o.state
    /\ environ' = IF o.saved THEN "saved" ELSE environ
    /\ last' = [handler |-> handler, chat |-> c, text |-> text,
                authorized |-> c \in DOMAIN USER_STATE,
                calls |-> o.calls, raised |-> o.raised, data |-> o.data]
    /\ restarted' = IF handler = "start" THEN restarted \cup {c} ELSE restarted \ {c}
    /\ UNCHANGED <<GOOGLE_TOKEN_JSON, response, clean_response>>

HandleMessage ==
    \E c \in Chats, text \in Texts :
        \E o \in handle_message(USER_STATE, GOOGLE_TOKEN_JSON, c, text) :
            Handled("handle_message", c, text, o)

Start ==
    \E c \in Chats : Handled("start", c, <<"/", "s", "t", "a", "r", "t">>, start(USER_STATE, c))

Init ==
    /\ USER_STATE = <<>>
    /\ environ = "initial"
    /\ last = NoUpdate
    /\ restarted = {}
    /\ GOOGLE_TOKEN_JSON \in {"unset", "set"}
    /\ response = <<>>
    /\ clean_response = <<>>

Next == HandleMessage \/ Start

Spec == Init /\ [][Next]_vars

(***************************** sanitize_response alone **********************)
SanInit ==
    /\ USER_STATE = <<>>
    /\ environ = "initial"
    /\ last = NoUpdate
    /\ restarted = {}
    /\ GOOGLE_TOKEN_JSON = "unset"
    /\ response \in BoundedSeq(SanAlphabet, MaxLen)
    /\ clean_response = <<>>

Sanitize ==
    /\ Len(clean_response) = 0
    /\ clean_response' = <<sanitize_response(response)>>
    /\ UNCHANGED <<USER_STATE, environ, last, restarted, GOOGLE_TOKEN_JSON, response>>

SanitizeAgain ==
    /\ Len(clean_response) = 1
    /\ clean_response' = Append(clean_response, sanitize_response(clean_response[1]))
    /\ UNCHANGED <<USER_STATE, environ, last, restarted, GOOGLE_TOKEN_JSON, response>>

SanNext == Sanitize \/ SanitizeAgain

SanSpec == SanInit /\ [][SanNext]_vars

(***************************** properties **********************************)
Ops(l) == {l.calls[i].op : i \in 1..Len(l.calls)}
Replies(l) == SelectSeq(l.calls, LAMBDA k : k.op \in {"reply_text", "send_message"})
SheetOps ==
    {"Credentials.from_authorized_user_info", "creds.refresh", "flow.run_local_server",
     "build", "values.get.execute"}
ServiceOps == SheetOps \cup {"generate_content", "get_chat_history", "delete_message"}

\* two texts are equal up to letter case
SameIgnoringCase(a, b) ==
    /\ Len(a) = Len(b)
    /\ \A i \in 1..Len(a) : lower_char(a[i]) = lower_char(b[i])

\* the text is an accepted name, compared case-insensitively
IsAcceptedName(text) == \E name \in AUTHORIZED_USERS : SameIgnoringCase(text, name)

\* the text is an accepted name with any whitespace before and after it
IsPaddedAcceptedName(text) ==
    \E i \in 1..(Len(text) + 1), j \in 0..Len(text) :
        /\ IsAcceptedName(SubSeq(text, i, j))
        /\ \A k \in 1..Len(text) : (k < i \/ k > j) => text[k] \in Whitespace

Greeted(l) == l.calls = <<reply_text(<<MSG_GREETING>>, "MENU_KEYBOARD")>> /\ ~l.raised
Rejected(l) == l.calls = <<reply_text(<<MSG_REJECTED>>, "none")>> /\ ~l.raised
GateMessage(l) == l.handler = "handle_message" /\ ~l.authorized

\* C1 as the specification states it: a message of a chat with no entry in
\* USER_STATE is greeted and its chat recorded as authorized when the text is an
\* accepted name (compared case-insensitively), and is rejected without an entry
\* for any other text.
C1_GateByExactName ==
    GateMessage(last) =>
        IF IsAcceptedName(last.text)
        THEN /\ Greeted(last)
             /\ last.chat \in DOMAIN USER_STATE
             /\ USER_STATE[last.chat] = "authorized"
        ELSE Rejected(last) /\ last.chat \notin DOMAIN USER_STATE

\* C1 amended: the text is compared after its leading and trailing whitespace
\* is removed; an accepted name with such whitespace around it (in any letter
\* case) authorizes the chat and is greeted, every other text is rejected and
\* leaves the chat without an entry.
C1_GateByTrimmedName ==
    GateMessage(last) =>
        IF IsPaddedAcceptedName(last.text)
        THEN /\ Greeted(last)
             /\ last.chat \in DOMAIN USER_STATE
             /\ USER_STATE[last.chat] = "authorized"
        ELSE Rejected(last) /\ last.chat \notin DOMAIN USER_STATE

C1_Witness ==
    /\ GateMessage(last)
    /\ last.text = <<" ", "m", "a", "t", "h", "e", "u", "s", "\n">>
    /\ Greeted(last)
    /\ last.chat \in DOMAIN USER_STATE

\* C2: once /start has run for a chat the chat has no entry in USER_STATE,
\* whether it had one before or not, and the next text message of that chat
\* is answered by the gate alone: one reply, the greeting or the rejection,
\* and no canned reply, cleanup, spreadsheet or AI call.
C2_StartForcesGate ==
    [][\A c \in Chats :
        /\ c \in restarted' => c \notin DOMAIN USER_STATE'
        /\ (c \in restarted /\ c \notin restarted') =>
              /\ last'.handler = "handle_message" /\ last'.chat = c
              /\ Greeted(last') \/ Rejected(last')
              /\ Ops(last') = {"reply_text"}
              /\ last'.data = Unfetched]_vars

C2_Witness ==
    /\ last.handler = "start"
    /\ last.authorized
    /\ last.chat \in restarted
    /\ last.chat \notin DOMAIN USER_STATE

\* C3: a spreadsheet call, an AI call and a message deletion are made only by
\* handle_message for a chat that had its entry in USER_STATE when the handling
\* began; the handling of a message of a chat without an entry, the authorizing
\* message included, makes one reply_text call and nothing else.
C3_ServicesOnlyForAuthorized ==
    /\ Ops(last) \cap ServiceOps # {} => last.handler = "handle_message" /\ last.authorized
    /\ GateMessage(last) =>
          /\ Len(last.calls) = 1
          /\ last.calls[1].op = "reply_text"
          /\ ~last.raised
          /\ last.data = Unfetched

C3_Witness ==
    /\ GateMessage(last)
    /\ last.chat \in DOMAIN USER_STATE
    /\ Len(last.calls) = 1

\* C4: when get_google_sheets_data returns a string to handle_message, the
\* handling makes no generate_content call and sends exactly one message, the
\* spreadsheet error message, whose text contains that string.
C4_FailureStringIsReported ==
    (last.data.kind = "return" /\ last.data.type = "str") =>
        /\ "generate_content" \notin Ops(last)
        /\ Len(Replies(last)) = 1
        /\ Replies(last)[1].text = <<MSG_SHEET_ERROR, last.data.str>>
        /\ ~last.raised

C4_Witness ==
    /\ last.data.kind = "return"
    /\ last.data.type = "str"
    /\ last.data.str = HTTP_ERROR
    /\ Len(Replies(last)) = 1

\* C5: no error of a call of get_google_sheets_data (loading the credentials,
\* the refresh, the interactive authorization, build, the read request) leaves
\* the function: handle_message always gets a value back.
C5_NoErrorLeavesFetch == last.data.kind # "raise"

\* C6: for an authorized chat the caption of the contract button, in any letter
\* case, is answered by the fixed contract-expiry text alone, and neither the
\* spreadsheet nor the AI service is called.
C6_VigenciaIsCanned ==
    (last.handler = "handle_message" /\ last.authorized
        /\ SameIgnoringCase(last.text, BUTTON_VIGENCIA)) =>
        /\ last.calls = <<reply_text(<<MSG_VIGENCIA>>, "none")>>
        /\ ~last.raised
        /\ last.data = Unfetched

C6_Witness ==
    /\ last.handler = "handle_message"
    /\ last.authorized
    /\ last.text # BUTTON_VIGENCIA
    /\ SameIgnoringCase(last.text, BUTTON_VIGENCIA)
    /\ last.calls = <<reply_text(<<MSG_VIGENCIA>>, "none")>>

\* C7: an entry of USER_STATE is removed only by /start for its own chat and is
\* never changed: every step of handle_message and of clear_chat_history keeps
\* every entry there is, and a step for one chat leaves the entry, or the lack
\* of one, of every other chat as it was.
C7_AuthorizationPersists ==
    [][\A c \in Chats :
        /\ (c \in DOMAIN USER_STATE /\ ~(last'.handler = "start" /\ last'.chat = c)) =>
              c \in DOMAIN USER_STATE' /\ USER_STATE'[c] = USER_STATE[c]
        /\ c # last'.chat =>
              /\ c \in DOMAIN USER_STATE <=> c \in DOMAIN USER_STATE'
              /\ c \in DOMAIN USER_STATE => USER_STATE'[c] = USER_STATE[c]]_vars

C7_Witness ==
    /\ last.handler = "handle_message"
    /\ last.authorized
    /\ \E i \in 1..Len(last.calls) :
          last.calls[i].op = "send_message" /\ Head(last.calls[i].text) = MSG_CLEAR_ERROR
    /\ last.chat \in DOMAIN USER_STATE
    /\ DOMAIN USER_STATE = Chats

\* the whitelist of the specification: word characters, whitespace and , . ! ? % euro $ pound -
Whitelisted(c) ==
    \/ IsWordChar(c)
    \/ c \in Whitespace
    \/ c \in {",", ".", "!", "?", "%", "U+20AC", "$", "U+00A3", "-"}

NoStarNoOther(out) == \A i \in 1..Len(out) : out[i] # "*" /\ Whitelisted(out[i])

\* C8 as the specification states it: the result has no star and no character
\* outside the whitelist and is the input with exactly the characters outside
\* the whitelist deleted.
C8_OnlyOthersDeleted ==
    Len(clean_response) >= 1 =>
        /\ NoStarNoOther(clean_response[1])
        /\ clean_response[1] = SelectSeq(response, Whitelisted)

\* C8 amended: the result has no star and no character outside the whitelist
\* and is the input with the characters outside the whitelist deleted and then
\* the whitespace at both ends of what is left removed.
C8_OthersDeletedThenTrimmed ==
    Len(clean_response) >= 1 =>
        LET out == clean_response[1]
            kept == SelectSeq(response, Whitelisted)
        IN  /\ NoStarNoOther(out)
            /\ out # <<>> => out[1] \notin Whitespace /\ out[Len(out)] \notin Whitespace
            /\ \E i \in 1..(Len(kept) + 1), j \in 0..Len(kept) :
                  /\ out = SubSeq(kept, i, j)
                  /\ \A k \in 1..Len(kept) : (k < i \/ k > j) => kept[k] \in Whitespace

C8_Witness ==
    /\ response = <<" ", "*", "a">>
    /\ clean_response = <<(<<"a">>)>>

\* C9: sanitize_response applied to its own result returns that result.
C9_SanitizeIdempotent ==
    Len(clean_response) = 2 => clean_response[2] = clean_response[1]

C9_Witness ==
    /\ response = <<"#", " ", "a">>
    /\ clean_response = <<(<<"a">>), (<<"a">>)>>

AIFault(l) ==
    /\ l.handler = "handle_message"
    /\ l.raised
    /\ l.data.type = "list"
    /\ l.calls # <<>> /\ l.calls[Len(l.calls)].op = "generate_content"

\* C10: when generate_content fails on the query path after the spreadsheet
\* returned rows, the handling ends with no message sent and USER_STATE as it
\* was; the update handled next, of the same chat or of another, is served as
\* usual: the gate answers a chat without an entry, the contract caption gets
\* its fixed text, /start clears the entry and gets the welcome.
C10_AIFaultIsIsolated ==
    [][/\ AIFault(last') =>
            /\ Replies(last') = <<>>
            /\ USER_STATE' = USER_STATE
            /\ last'.chat \in DOMAIN USER_STATE'
       /\ (AIFault(last) /\ vars' # vars) =>
            /\ GateMessage(last') => Greeted(last') \/ Rejected(last')
            /\ (last'.handler = "handle_message" /\ last'.authorized
                    /\ SameIgnoringCase(last'.text, BUTTON_VIGENCIA)) =>
                  last'.calls = <<reply_text(<<MSG_VIGENCIA>>, "none")>>
            /\ last'.handler = "handle_message" =>
                  (last'.chat \in DOMAIN USER_STATE' /\ USER_STATE' # USER_STATE => Greeted(last'))
            /\ last'.handler = "start" =>
                  /\ last'.calls = <<reply_text(<<MSG_WELCOME>>, "none")>>
                  /\ last'.chat \notin DOMAIN USER_STATE']_vars

C10_Witness ==
    /\ AIFault(last)
    /\ Replies(last) = <<>>
    /\ last.chat \in DOMAIN USER_STATE

====
